---- MODULE Spec2Model ----
(***************************************************************************)
(* Model of utils/content_search.py (ContentSearchService) together with   *)
(* the source-label part of utils/interview_sources.py.                    *)
(*                                                                         *)
(* Text is a sequence of characters.  An ASCII character is the string of  *)
(* that character ("a", "\\", "<"); a non-ASCII character is the string    *)
(* "uXXXX" of its code point ("u67EF" is U+67EF).  Positions are 0-based   *)
(* as in the Python code; content[i] of the code is content[i + 1] here.   *)
(* Scores are exact rationals <<numerator, denominator>>, importances are  *)
(* kept in tenths (0.2 is 2, 1.0 is 10).                                   *)
(***************************************************************************)
EXTENDS Integers, Sequences, FiniteSets, TLC

VARIABLES interview_cache, keyword_frequencies, set_order, last, history, calls

vars == <<interview_cache, keyword_frequencies, set_order, last, history, calls>>

(***************************************************************************)
(* Characters and Python string primitives                                 *)
(***************************************************************************)
Rep(c, n) == [i \in 1..n |-> c]

Min(a, b) == IF a <= b THEN a ELSE b

Max(a, b) == IF a >= b THEN a ELSE b

UpperToLower ==
  ("A" :> "a") @@ ("B" :> "b") @@ ("C" :> "c") @@ ("D" :> "d") @@ ("E" :> "e") @@
  ("F" :> "f") @@ ("G" :> "g") @@ ("H" :> "h") @@ ("I" :> "i") @@ ("J" :> "j") @@
  ("K" :> "k") @@ ("L" :> "l") @@ ("M" :> "m") @@ ("N" :> "n") @@ ("O" :> "o") @@
  ("P" :> "p") @@ ("Q" :> "q") @@ ("R" :> "r") @@ ("S" :> "s") @@ ("T" :> "t") @@
  ("U" :> "u") @@ ("V" :> "v") @@ ("W" :> "w") @@ ("X" :> "x") @@ ("Y" :> "y") @@
  ("Z" :> "z")

\* re.IGNORECASE compares characters up to case
Lower(c) == IF c \in DOMAIN UpperToLower THEN UpperToLower[c] ELSE c

AsciiLetters == DOMAIN UpperToLower \cup {UpperToLower[c] : c \in DOMAIN UpperToLower}

Digits == {"0", "1", "2", "3", "4", "5", "6", "7", "8", "9"}

\* str.strip() removes leading and trailing whitespace
Whitespace == {" ", "\n", "\t", "\r", "u3000"}

\* self.sentence_delimiters = r'[。！？\n]'
sentence_delimiters == {"u3002", "uFF01", "uFF1F", "\n"}

RECURSIVE LStrip(_)
LStrip(s) == IF s # <<>> /\ Head(s) \in Whitespace THEN LStrip(Tail(s)) ELSE s

RECURSIVE RStrip(_)
RStrip(s) ==
  IF s # <<>> /\ s[Len(s)] \in Whitespace THEN RStrip(SubSeq(s, 1, Len(s) - 1)) ELSE s

Strip(s) == RStrip(LStrip(s))

\* s[a:b] for 0 <= a, 0 <= b
Slice(s, a, b) == SubSeq(s, a + 1, Min(b, Len(s)))

\* s[:k], where a negative k counts from the end of s
SliceTo(s, k) == IF k >= 0 THEN Slice(s, 0, k) ELSE Slice(s, 0, Max(0, Len(s) + k))

EndsWith(s, t) ==
  /\ Len(t) <= Len(s)
  /\ SubSeq(s, Len(s) - Len(t) + 1, Len(s)) = t

(***************************************************************************)
(* re.escape(keyword) compiled with re.IGNORECASE: the pattern matches the *)
(* keyword literally, character by character, up to case.                  *)
(***************************************************************************)
MatchAt(text, kw, i) ==
  /\ i + Len(kw) <= Len(text)
  /\ \A j \in 1..Len(kw) : Lower(text[i + j]) = Lower(kw[j])

MatchStarts(text, kw) == {i \in 0..(Len(text) - Len(kw)) : MatchAt(text, kw, i)}

\* re.search(re.escape(kw), text, re.IGNORECASE) is not None
Search(kw, text) == \E i \in 0..(Len(text) - Len(kw)) : MatchAt(text, kw, i)

SetMin(S) == CHOOSE m \in S : \A x \in S : m <= x

\* the next n start offsets at or after `from`: leftmost first,
\* non-overlapping
RECURSIVE ScanSome(_, _, _, _)
ScanSome(starts, from, klen, n) ==
  LET later == {i \in starts : i >= from}
  IN IF n = 0 \/ later = {} THEN <<>>
     ELSE LET m == SetMin(later) IN <<m>> \o ScanSome(starts, m + klen, klen, n - 1)

\* start offsets of re.finditer / re.findall / re.sub: leftmost first,
\* non-overlapping (taken in runs of 16 matches)
RECURSIVE Scan(_, _, _)
Scan(starts, from, klen) ==
  LET run == ScanSome(starts, from, klen, 16)
  IN IF Len(run) < 16 THEN run
     ELSE run \o Scan(starts, run[16] + klen, klen)

FindIter(kw, text) == Scan(MatchStarts(text, kw), 0, Len(kw))

(***************************************************************************)
(* Rationals for relevance_score (exact, where Python uses floats)         *)
(***************************************************************************)
RECURSIVE GCD(_, _)
GCD(a, b) == IF b = 0 THEN a ELSE GCD(b, a % b)

Abs(a) == IF a < 0 THEN -a ELSE a

\* the fraction n/d (d > 0) in lowest terms
Frac(n, d) == LET g == GCD(Abs(n), d) IN IF g = 0 THEN <<0, 1>> ELSE <<n \div g, d \div g>>

RAdd(p, q) ==
  LET g == GCD(p[2], q[2])
  IN Frac(p[1] * (q[2] \div g) + q[1] * (p[2] \div g), p[2] * (q[2] \div g))

RHalf(p) == IF p[1] % 2 = 0 THEN <<p[1] \div 2, p[2]>> ELSE <<p[1], 2 * p[2]>>

RLess(p, q) ==
  LET g == GCD(p[2], q[2]) IN p[1] * (q[2] \div g) < q[1] * (p[2] \div g)

RLeq(p, q) == ~RLess(q, p)

\* 0.1, the score floor of _calculate_relevance_score
ScoreFloor == <<1, 10>>

(***************************************************************************)
(* ContentSearchService.__init__                                           *)
(***************************************************************************)
\* self.common_keywords
common_keywords == {
  <<"u67EF", "u5357">>,                             \* Ke Nan (Conan)
  <<"u5DE5", "u85E4", "u65B0", "u4E00">>,           \* Gong Teng Xin Yi
  <<"u65B0", "u4E00">>,                             \* Xin Yi
  <<"u7070", "u539F", "u54C0">>,                    \* Hui Yuan Ai
  <<"u5C0F", "u54C0">>,                             \* Xiao Ai
  <<"u54C0">>,                                      \* Ai
  <<"u5C0F", "u5170">>,                             \* Xiao Lan
  <<"u6BDB", "u5229", "u5170">>,                    \* Mao Li Lan
  <<"u6BDB", "u5229", "u5C0F", "u4E94", "u90CE">>,  \* Mao Li Xiao Wu Lang
  <<"u963F", "u7B20", "u535A", "u58EB">>,           \* A Li Bo Shi
  <<"u535A", "u58EB">>,                             \* Bo Shi
  <<"u5C11", "u5E74", "u4FA6", "u63A2", "u56E2">>,  \* Shao Nian Zhen Tan Tuan
  <<"u540D", "u4FA6", "u63A2", "u67EF", "u5357">>,  \* Ming Zhen Tan Ke Nan
  <<"u4FA6", "u63A2">>,                             \* Zhen Tan
  <<"u6848", "u4EF6">>,                             \* An Jian
  <<"u63A8", "u7406">>,                             \* Tui Li
  <<"u771F", "u76F8">>,                             \* Zhen Xiang (truth)
  <<"u9ED1", "u8863", "u7EC4", "u7EC7">>,           \* Hei Yi Zu Zhi
  <<"u7EC4", "u7EC7">>,                             \* Zu Zhi
  <<"u9752", "u5C71", "u521A", "u660C">>,           \* Qing Shan Gang Chang
  <<"u4F5C", "u8005">>,                             \* Zuo Zhe
  <<"u6F2B", "u753B">>,                             \* Man Hua
  <<"u52A8", "u753B">>,                             \* Dong Hua
  <<"u5267", "u573A", "u7248">>,                    \* Ju Chang Ban
  <<"u30B3", "u30CA", "u30F3">>,                    \* ko na n (katakana)
  <<"u862D">>,                                      \* Ran
  <<"u7070", "u539F">>                              \* Hui Yuan
}

\* " ".join(self.interview_cache.values()); a cache is a sequence of
\* <<file_path, content>> pairs in dict insertion order
RECURSIVE JoinValues(_)
JoinValues(cache) ==
  IF cache = <<>> THEN <<>>
  ELSE IF Len(cache) = 1 THEN cache[1][2]
  ELSE cache[1][2] \o <<" ">> \o JoinValues(Tail(cache))

calculate_keyword_frequencies(cache) ==
  LET total_text == JoinValues(cache)
  IN [keyword \in common_keywords |-> Len(FindIter(keyword, total_text))]

\* a variant whose thresholds include their own value
get_keyword_importance_inclusive(keyword) ==
  IF keyword \in common_keywords
  THEN LET frequency == IF keyword \in DOMAIN keyword_frequencies
                        THEN keyword_frequencies[keyword] ELSE 0
       IN IF frequency >= 100 THEN 2
          ELSE IF frequency >= 50 THEN 4
          ELSE IF frequency >= 20 THEN 6
          ELSE 8
  ELSE 10

\* a variant with the two middle levels exchanged
get_keyword_importance_exchanged(keyword) ==
  IF keyword \in common_keywords
  THEN LET frequency == IF keyword \in DOMAIN keyword_frequencies
                        THEN keyword_frequencies[keyword] ELSE 0
       IN IF frequency > 100 THEN 2
          ELSE IF frequency > 50 THEN 6
          ELSE IF frequency > 20 THEN 4
          ELSE 8
  ELSE 10

\* importance in tenths
get_keyword_importance(keyword) ==
  IF keyword \in common_keywords
  THEN LET frequency == IF keyword \in DOMAIN keyword_frequencies
                        THEN keyword_frequencies[keyword] ELSE 0
       IN IF frequency > 100 THEN 2
          ELSE IF frequency > 50 THEN 4
          ELSE IF frequency > 20 THEN 6
          ELSE 8
  ELSE 10

\* distinct entries of a keyword list
Range(s) == {s[i] : i \in 1..Len(s)}

\* a variant without the keyword-combination filter
should_include_context_always(keywords_in_context, all_keywords) ==
  keywords_in_context # <<>>

\* a variant that counts list entries instead of distinct keywords
should_include_context_entries(keywords_in_context, all_keywords) ==
  IF keywords_in_context = <<>> THEN FALSE
  ELSE IF \A i \in 1..Len(keywords_in_context) : keywords_in_context[i] \in common_keywords
       THEN Len(keywords_in_context) >= 2
  ELSE TRUE

should_include_context(keywords_in_context, all_keywords) ==
  IF keywords_in_context = <<>> THEN FALSE
  ELSE LET common_count ==
             Cardinality({i \in 1..Len(keywords_in_context) :
                            keywords_in_context[i] \in common_keywords})
           uncommon_count == Len(keywords_in_context) - common_count
       IN IF uncommon_count = 0
          THEN Cardinality(Range(keywords_in_context)) >= 2
          ELSE TRUE

RECURSIVE SumImportance(_)
SumImportance(kws) ==
  IF kws = <<>> THEN 0 ELSE get_keyword_importance(Head(kws)) + SumImportance(Tail(kws))

\* avg_importance < 0.5 is sum < 0.5 * len, in tenths sum10 < 5 * len;
\* int(200 * 0.6) = 120 and int(200 * 0.8) = 160
calculate_context_length_limit(keywords_in_context, base_radius) ==
  IF keywords_in_context = <<>> THEN base_radius
  ELSE LET sum10 == SumImportance(keywords_in_context)
           n == Len(keywords_in_context)
       IN IF sum10 < 5 * n THEN (base_radius * 6) \div 10
          ELSE IF sum10 < 7 * n THEN (base_radius * 8) \div 10
          ELSE base_radius

(***************************************************************************)
(* _highlight_keywords: re.sub(re.escape(keyword), f'<mark>{keyword}</mark>',*)
(* highlighted, flags=re.IGNORECASE), keyword by keyword.  The replacement *)
(* is a template: re parses its backslash escapes before substituting.     *)
(***************************************************************************)
MarkOpen == <<"<", "m", "a", "r", "k", ">">>

MarkClose == <<"<", "/", "m", "a", "r", "k", ">">>

Template(keyword) == MarkOpen \o keyword \o MarkClose

\* the escapes re's template parser replaces by one character
\* (\a \b \f \n \r \t \v \\)
TemplateEscapes ==
  ("a" :> "x07") @@ ("b" :> "x08") @@ ("f" :> "\f") @@ ("n" :> "\n") @@
  ("r" :> "\r") @@ ("t" :> "\t") @@ ("v" :> "x0B") @@ ("\\" :> "\\")

\* re.error from the template parser: a backslash at the end of the
\* template, a group reference \1..\9 (the escaped pattern has no groups),
\* or a backslash before an ASCII letter that is no escape.  (\g<..> and the
\* octal \0.. are outside the modelled keyword alphabet.)
RECURSIVE TemplateRaises(_)
TemplateRaises(t) ==
  IF t = <<>> THEN FALSE
  ELSE IF Head(t) # "\\" THEN TemplateRaises(Tail(t))
  ELSE IF Len(t) = 1 THEN TRUE
  ELSE LET c == t[2]
       IN IF c \in (Digits \ {"0"}) THEN TRUE
          ELSE IF c \in DOMAIN TemplateEscapes THEN TemplateRaises(Tail(Tail(t)))
          ELSE IF c \in AsciiLetters THEN TRUE
          ELSE TemplateRaises(Tail(Tail(t)))

\* the text the template stands for, when it parses
RECURSIVE TemplateExpand(_)
TemplateExpand(t) ==
  IF t = <<>> THEN <<>>
  ELSE IF Head(t) # "\\" \/ Len(t) = 1 THEN <<Head(t)>> \o TemplateExpand(Tail(t))
  ELSE LET c == t[2]
       IN IF c \in DOMAIN TemplateEscapes
          THEN <<TemplateEscapes[c]>> \o TemplateExpand(Tail(Tail(t)))
          ELSE <<"\\", c>> \o TemplateExpand(Tail(Tail(t)))

\* re.sub: every match of the keyword, left to right, replaced by repl
RECURSIVE Substitute(_, _, _, _, _)
Substitute(text, starts, cursor, klen, repl) ==
  IF starts = <<>> THEN Slice(text, cursor, Len(text))
  ELSE Slice(text, cursor, Head(starts)) \o repl
         \o Substitute(text, Tail(starts), Head(starts) + klen, klen, repl)

ReSub(keyword, text) ==
  Substitute(text, FindIter(keyword, text), 0, Len(keyword),
             TemplateExpand(Template(keyword)))

\* TRUE when _highlight_keywords raises re.error
highlight_raises(keywords) ==
  \E i \in 1..Len(keywords) : TemplateRaises(Template(keywords[i]))

RECURSIVE highlight_keywords(_, _)
highlight_keywords(text, keywords) ==
  IF keywords = <<>> THEN text
  ELSE highlight_keywords(ReSub(Head(keywords), text), Tail(keywords))

(***************************************************************************)
(* utils/interview_sources.py: get_interview_metadata.  A file path is     *)
(* modelled by the parts of its file name, that is                         *)
(* os.path.basename(rel_path).replace(".txt", "").split("_"); the source   *)
(* label "_".join(parts[1:-1]) by the sequence parts[1:-1].  The function  *)
(* sets no "url" key, so metadata.get('url') is None.                      *)
(***************************************************************************)
UnknownSource == <<"unknown-source">>

None == "None"

get_interview_metadata(parts) ==
  [source |-> IF Len(parts) >= 4 THEN SubSeq(parts, 2, Len(parts) - 1) ELSE UnknownSource,
   url |-> None]

(***************************************************************************)
(* _find_all_matches                                                       *)
(***************************************************************************)
\* a variant that also reports the occurrences that overlap an earlier one
MatchesOf_every(file_path, content, keyword) ==
  LET starts == Scan(MatchStarts(content, keyword), 0, 1)
  IN [i \in 1..Len(starts) |->
        [keyword |-> keyword, file_path |-> file_path, content |-> content,
         position |-> starts[i]]]

MatchesOf(file_path, content, keyword) ==
  LET starts == FindIter(keyword, content)
  IN [i \in 1..Len(starts) |->
        [keyword |-> keyword, file_path |-> file_path, content |-> content,
         position |-> starts[i]]]

RECURSIVE MatchesInDocument(_, _, _)
MatchesInDocument(file_path, content, keywords) ==
  IF keywords = <<>> THEN <<>>
  ELSE MatchesOf(file_path, content, Head(keywords))
         \o MatchesInDocument(file_path, content, Tail(keywords))

RECURSIVE MatchesInCache(_, _)
MatchesInCache(cache, keywords) ==
  IF cache = <<>> THEN <<>>
  ELSE (IF Strip(cache[1][2]) = <<>> THEN <<>>
        ELSE MatchesInDocument(cache[1][1], cache[1][2], keywords))
         \o MatchesInCache(Tail(cache), keywords)

find_all_matches(keywords) == MatchesInCache(interview_cache, keywords)

(***************************************************************************)
(* _find_sentence_start, _find_sentence_end                                *)
(***************************************************************************)
find_sentence_start(text, position) ==
  IF position <= 0 THEN 0
  ELSE LET found == {i \in 0..(position - 1) : text[i + 1] \in sentence_delimiters}
       IN IF found = {} THEN 0
          ELSE (CHOOSE i \in found : \A j \in found : j <= i) + 1

\* a variant that starts looking one character after the position
find_sentence_end_after(text, position) ==
  IF position >= Len(text) THEN Len(text)
  ELSE LET found == {i \in (position + 1)..(Len(text) - 1) : text[i + 1] \in sentence_delimiters}
       IN IF found = {} THEN Len(text)
          ELSE SetMin(found) + 1

find_sentence_end(text, position) ==
  IF position >= Len(text) THEN Len(text)
  ELSE LET found == {i \in position..(Len(text) - 1) : text[i + 1] \in sentence_delimiters}
       IN IF found = {} THEN Len(text)
          ELSE SetMin(found) + 1

(***************************************************************************)
(* _calculate_relevance_score                                              *)
(***************************************************************************)
RECURSIVE WeightedChars(_)
WeightedChars(kws) ==
  IF kws = <<>> THEN 0
  ELSE Len(Head(kws)) * get_keyword_importance(Head(kws)) + WeightedChars(Tail(kws))

\* importance_weighted_score + density_bonus - length_penalty over the
\* common denominator 2000 * len(text):
\*   2.0 * sum(importance)           = 400 * sum10 * L / (2000 * L)
\*   0.5 * n * avg_importance        = 100 * sum10 * L / (2000 * L)   (n > 1)
\*   3 * weighted_keyword_chars / L  = 600 * chars10   / (2000 * L)
\*   len(text) / 2000                = L * L           / (2000 * L)
\* a variant without the floor max(0.1, final_score)
calculate_relevance_score_unclamped(text, keywords_found) ==
  IF keywords_found = <<>> THEN <<0, 1>>
  ELSE LET L == Len(text)
           sum10 == SumImportance(keywords_found)
           chars10 == WeightedChars(keywords_found)
           coefficient == IF Len(keywords_found) > 1 THEN 500 ELSE 400
       IN IF L = 0 THEN Frac(coefficient * sum10, 2000)
          ELSE Frac(coefficient * sum10 * L + 600 * chars10 - L * L, 2000 * L)

\* a variant without the bonus 0.5 * n * avg_importance for several keywords
calculate_relevance_score_single(text, keywords_found) ==
  IF keywords_found = <<>> THEN <<0, 1>>
  ELSE LET L == Len(text)
           sum10 == SumImportance(keywords_found)
           chars10 == WeightedChars(keywords_found)
           final_score ==
             IF L = 0 THEN Frac(400 * sum10, 2000)
             ELSE Frac(400 * sum10 * L + 600 * chars10 - L * L, 2000 * L)
       IN IF RLess(final_score, ScoreFloor) THEN ScoreFloor ELSE final_score

calculate_relevance_score(text, keywords_found) ==
  IF keywords_found = <<>> THEN <<0, 1>>
  ELSE LET L == Len(text)
           sum10 == SumImportance(keywords_found)
           chars10 == WeightedChars(keywords_found)
           coefficient == IF Len(keywords_found) > 1 THEN 500 ELSE 400
           final_score ==
             IF L = 0 THEN Frac(coefficient * sum10, 2000)
             ELSE Frac(coefficient * sum10 * L + 600 * chars10 - L * L, 2000 * L)
       IN IF RLess(final_score, ScoreFloor) THEN ScoreFloor ELSE final_score

(***************************************************************************)
(* _extract_context.  A SearchResult carries the dataclass fields; the     *)
(* fields file_paths and spans are history only: the documents the snippet *)
(* was cut from and the <<start, end>> intervals of the extracted snippets *)
(* that went into it.                                                      *)
(***************************************************************************)
base_radius_default == 200

KeywordsIn(all_keywords, text) == SelectSeq(all_keywords, LAMBDA kw : Search(kw, text))

\* [none |-> TRUE] is Python's None; raised is re.error out of
\* _highlight_keywords; window is <<start_pos, end_pos>>, kept as history
extract_context(match, all_keywords, base_radius) ==
  LET content == match.content
      keyword == match.keyword
      position == match.position
      file_path == match.file_path
      temp_start == Max(0, position - base_radius)
      temp_end == Min(Len(content), position + base_radius)
      temp_context == Slice(content, temp_start, temp_end)
      temp_keywords_found == KeywordsIn(all_keywords, temp_context)
      adjusted_radius == calculate_context_length_limit(temp_keywords_found, base_radius)
      start_pos == Max(0, position - adjusted_radius)
      end_pos == Min(Len(content), position + adjusted_radius)
      start_boundary == find_sentence_start(content, start_pos)
      end_boundary == find_sentence_end(content, end_pos)
      context_text == Strip(Slice(content, start_boundary, end_boundary))
      metadata == get_interview_metadata(file_path)
      found == KeywordsIn(all_keywords, context_text)
      keywords_found == IF found = <<>> THEN <<keyword>> ELSE found
      raised == highlight_raises(keywords_found)
  IN IF context_text = <<>> \/ Len(context_text) < 10
     THEN [none |-> TRUE, raised |-> FALSE]
     ELSE IF raised THEN [none |-> FALSE, raised |-> TRUE]
     ELSE [none |-> FALSE, raised |-> FALSE,
           window |-> <<start_pos, end_pos>>,
           result |->
             [text |-> context_text,
              keywords_found |-> keywords_found,
              relevance_score |-> calculate_relevance_score(context_text, keywords_found),
              source |-> metadata.source,
              url |-> metadata.url,
              highlighted_text |-> highlight_keywords(context_text, keywords_found),
              start_position |-> start_boundary,
              end_position |-> end_boundary,
              file_paths |-> {file_path},
              spans |-> {<<start_boundary, end_boundary>>}]]

(***************************************************************************)
(* _deduplicate_results                                                    *)
(***************************************************************************)
merge_gap == 100

\* list(set(keywords)): the elements in the iteration order of this
\* process's string hashing
ListOfSet(S) == SelectSeq(set_order, LAMBDA kw : kw \in S)

\* keys of grouped_by_source in insertion order
RECURSIVE SourcesOf(_, _)
SourcesOf(results, seen) ==
  IF results = <<>> THEN <<>>
  ELSE IF Head(results).source \in seen THEN SourcesOf(Tail(results), seen)
  ELSE <<Head(results).source>> \o SourcesOf(Tail(results), seen \cup {Head(results).source})

\* list.sort(key=start_position): stable, ascending
RECURSIVE InsertByStart(_, _)
InsertByStart(sorted, r) ==
  IF sorted = <<>> THEN <<r>>
  ELSE IF r.start_position < Head(sorted).start_position THEN <<r>> \o sorted
  ELSE <<Head(sorted)>> \o InsertByStart(Tail(sorted), r)

RECURSIVE SortByStart(_)
SortByStart(results) ==
  IF results = <<>> THEN <<>>
  ELSE InsertByStart(SortByStart(SubSeq(results, 1, Len(results) - 1)),
                     results[Len(results)])

\* a variant that adds the whole score of the later snippet
MergeResults_whole_score(current, next_result) ==
  LET merged_text == IF EndsWith(current.text, next_result.text) THEN current.text
                     ELSE current.text \o <<" ", ".", ".", ".", " ">> \o next_result.text
      merged_keywords ==
        ListOfSet(Range(current.keywords_found) \cup Range(next_result.keywords_found))
  IN [text |-> merged_text,
      keywords_found |-> merged_keywords,
      relevance_score |-> RAdd(current.relevance_score, next_result.relevance_score),
      source |-> current.source,
      url |-> current.url,
      highlighted_text |-> highlight_keywords(merged_text, merged_keywords),
      start_position |-> current.start_position,
      end_position |-> next_result.end_position,
      file_paths |-> current.file_paths \cup next_result.file_paths,
      spans |-> current.spans \cup next_result.spans,
      origins |-> current.origins \cup next_result.origins]

MergeResults(current, next_result) ==
  LET merged_text == IF EndsWith(current.text, next_result.text) THEN current.text
                     ELSE current.text \o <<" ", ".", ".", ".", " ">> \o next_result.text
      merged_keywords ==
        ListOfSet(Range(current.keywords_found) \cup Range(next_result.keywords_found))
  IN [text |-> merged_text,
      keywords_found |-> merged_keywords,
      relevance_score |-> RAdd(current.relevance_score, RHalf(next_result.relevance_score)),
      source |-> current.source,
      url |-> current.url,
      highlighted_text |-> highlight_keywords(merged_text, merged_keywords),
      start_position |-> current.start_position,
      end_position |-> next_result.end_position,
      file_paths |-> current.file_paths \cup next_result.file_paths,
      spans |-> current.spans \cup next_result.spans,
      origins |-> current.origins \cup next_result.origins]

\* a variant that drops a close later snippet instead of merging it
RECURSIVE MergeAdjacent_dropping(_, _)
MergeAdjacent_dropping(current, rest) ==
  IF rest = <<>> THEN <<current>>
  ELSE IF Head(rest).start_position - current.end_position < merge_gap
       THEN MergeAdjacent_dropping(current, Tail(rest))
  ELSE <<current>> \o MergeAdjacent_dropping(Head(rest), Tail(rest))

\* the while loops over one source's sorted results
RECURSIVE MergeAdjacent(_, _)
MergeAdjacent(current, rest) ==
  IF rest = <<>> THEN <<current>>
  ELSE IF Head(rest).start_position - current.end_position < merge_gap
       THEN MergeAdjacent(MergeResults(current, Head(rest)), Tail(rest))
  ELSE <<current>> \o MergeAdjacent(Head(rest), Tail(rest))

MergeSource(source_results) ==
  LET sorted == SortByStart(source_results)
  IN IF sorted = <<>> THEN <<>> ELSE MergeAdjacent(Head(sorted), Tail(sorted))

RECURSIVE MergeSources(_, _)
MergeSources(results, sources) ==
  IF sources = <<>> THEN <<>>
  ELSE MergeSource(SelectSeq(results, LAMBDA r : r.source = Head(sources)))
         \o MergeSources(results, Tail(sources))

deduplicate_results(results) ==
  IF results = <<>> THEN <<>> ELSE MergeSources(results, SourcesOf(results, {}))

(***************************************************************************)
(* sorted(..., key=relevance_score, reverse=True): stable, descending      *)
(***************************************************************************)
RECURSIVE InsertByScore(_, _)
InsertByScore(sorted, r) ==
  IF sorted = <<>> THEN <<r>>
  ELSE IF RLess(Head(sorted).relevance_score, r.relevance_score) THEN <<r>> \o sorted
  ELSE <<Head(sorted)>> \o InsertByScore(Tail(sorted), r)

\* a variant that leaves the list in the order of deduplication
SortByScore_unsorted(results) == results

RECURSIVE SortByScore(_)
SortByScore(results) ==
  IF results = <<>> THEN <<>>
  ELSE InsertByScore(SortByScore(SubSeq(results, 1, Len(results) - 1)),
                     results[Len(results)])

(***************************************************************************)
(* _select_top_results                                                     *)
(***************************************************************************)
truncate_margin == 100

Ellipsis == <<".", ".", ".">>

Truncated(result, max_length) ==
  LET truncated_text == SliceTo(result.text, max_length - truncate_margin) \o Ellipsis
  IN [result EXCEPT !.text = truncated_text,
                    !.highlighted_text =
                       highlight_keywords(truncated_text, result.keywords_found)]

\* a variant that passes over a snippet that does not fit and goes on with
\* the next one
RECURSIVE SelectLoop_skipping(_, _, _, _)
SelectLoop_skipping(rest, selected, total_length, max_length) ==
  IF rest = <<>> THEN selected
  ELSE LET result == Head(rest)
           result_length == Len(result.text)
       IN IF total_length + result_length <= max_length
          THEN SelectLoop_skipping(Tail(rest), Append(selected, result),
                                   total_length + result_length, max_length)
          ELSE IF selected = <<>> /\ result_length > max_length
               THEN Append(selected, Truncated(result, max_length))
          ELSE SelectLoop_skipping(Tail(rest), selected, total_length, max_length)

\* a variant that stops at a snippet that does not fit without ever
\* truncating it
RECURSIVE SelectLoop_whole_only(_, _, _, _)
SelectLoop_whole_only(rest, selected, total_length, max_length) ==
  IF rest = <<>> THEN selected
  ELSE LET result == Head(rest)
           result_length == Len(result.text)
       IN IF total_length + result_length <= max_length
          THEN SelectLoop_whole_only(Tail(rest), Append(selected, result),
                                     total_length + result_length, max_length)
          ELSE selected

RECURSIVE SelectLoop(_, _, _, _)
SelectLoop(rest, selected, total_length, max_length) ==
  IF rest = <<>> THEN selected
  ELSE LET result == Head(rest)
           result_length == Len(result.text)
       IN IF total_length + result_length <= max_length
          THEN SelectLoop(Tail(rest), Append(selected, result),
                          total_length + result_length, max_length)
          ELSE IF selected = <<>> /\ result_length > max_length
               THEN Append(selected, Truncated(result, max_length))
          ELSE selected

select_top_results(sorted_results, max_length) ==
  SelectLoop(sorted_results, <<>>, 0, max_length)

(***************************************************************************)
(* search_keywords.  The outcome of a call records the returned list and,  *)
(* as history, the lists the stages handed on.                             *)
(***************************************************************************)
NoResults ==
  [keyword_importance |-> <<>>, all_matches |-> <<>>, resolver_log |-> <<>>,
   extracted |-> <<>>,
   search_results |-> <<>>, filtered |-> <<>>, deduplicated |-> <<>>,
   sorted_results |-> <<>>, result |-> <<>>]

\* the contexts of step 2 that are not None.  The history field origins
\* tells the SearchResult objects apart: it holds the index of the match the
\* snippet was extracted for, and after a merge the indices of all the
\* snippets merged.
Extracted(contexts) ==
  LET kept == SelectSeq([i \in 1..Len(contexts) |-> i], LAMBDA i : ~contexts[i].none)
  IN [k \in 1..Len(kept) |-> [origins |-> {kept[k]}] @@ contexts[kept[k]].result]

\* the matches without their copy of the document text
MatchLog(all_matches) ==
  [i \in 1..Len(all_matches) |->
     [keyword |-> all_matches[i].keyword, file_path |-> all_matches[i].file_path,
      position |-> all_matches[i].position]]

\* the file paths handed to get_interview_metadata, in call order: one call
\* by each _extract_context that gets past the length test
ResolverLog(all_matches, contexts, upto) ==
  LET called == SelectSeq([i \in 1..upto |-> i], LAMBDA i : ~contexts[i].none)
  IN [k \in 1..Len(called) |-> all_matches[called[k]].file_path]

\* the contexts of step 2 that are not None: the match, the radius window,
\* and the text and positions of the snippet
ExtractedLog(all_matches, contexts, upto) ==
  LET kept == SelectSeq([i \in 1..upto |-> i], LAMBDA i : ~contexts[i].none)
  IN [k \in 1..Len(kept) |->
        [keyword |-> all_matches[kept[k]].keyword,
         file_path |-> all_matches[kept[k]].file_path,
         position |-> all_matches[kept[k]].position,
         window |-> contexts[kept[k]].window,
         text |-> contexts[kept[k]].result.text,
         start_position |-> contexts[kept[k]].result.start_position,
         end_position |-> contexts[kept[k]].result.end_position]]

\* steps 0 to 5 of search_keywords
SearchSteps(keywords, max_length) ==
  LET keyword_importance == [kw \in Range(keywords) |-> get_keyword_importance(kw)]
      all_matches == find_all_matches(keywords)
      contexts == [i \in 1..Len(all_matches) |->
                     extract_context(all_matches[i], keywords, base_radius_default)]
      raising == {i \in 1..Len(contexts) : contexts[i].raised}
  IN IF raising # {}
     THEN [raised |-> TRUE,
           keyword_importance |-> keyword_importance,
           all_matches |-> MatchLog(all_matches),
           resolver_log |-> ResolverLog(all_matches, contexts, SetMin(raising))]
            @@ NoResults
     ELSE LET extracted == Extracted(contexts)
              search_results ==
                SelectSeq(extracted,
                  LAMBDA c : should_include_context(c.keywords_found, keywords))
              filtered ==
                SelectSeq(extracted,
                  LAMBDA c : ~should_include_context(c.keywords_found, keywords))
              deduplicated_results == deduplicate_results(search_results)
              sorted_results == SortByScore(deduplicated_results)
              final_results == select_top_results(sorted_results, max_length)
          IN [raised |-> FALSE,
              keyword_importance |-> keyword_importance,
              all_matches |-> MatchLog(all_matches),
              resolver_log |-> ResolverLog(all_matches, contexts, Len(contexts)),
              extracted |-> ExtractedLog(all_matches, contexts, Len(contexts)),
              search_results |-> search_results,
              filtered |-> filtered,
              deduplicated |-> deduplicated_results,
              sorted_results |-> sorted_results,
              result |-> final_results]

\* a variant that reads the keyword list before checking that it is not
\* empty, and raises on the empty list
search_keywords_unguarded(keywords, max_length) ==
  IF keywords = <<>> THEN [raised |-> TRUE] @@ NoResults
  ELSE SearchSteps(keywords, max_length)

search_keywords(keywords, max_length) ==
  IF keywords = <<>> THEN [raised |-> FALSE] @@ NoResults
  ELSE SearchSteps(keywords, max_length)

(***************************************************************************)
(* Keywords, documents, corpora and queries of the model                  *)
(***************************************************************************)
KwConan == <<"u67EF", "u5357">>       \* Ke Nan, a common keyword

KwTruth == <<"u771F", "u76F8">>       \* Zhen Xiang, a common keyword

KwFound == <<"u53D1", "u73B0">>       \* Fa Xian, not in the registry

KwAptx == <<"A", "P", "T", "X">>      \* not in the registry

KwEscape == <<"\\", "d">>             \* a backslash and a letter

KwParen == <<"(">>                    \* a regular-expression metacharacter

KwAi == <<"u54C0">>                   \* Ai, a common keyword

KwLan == <<"u5C0F", "u5170">>         \* Xiao Lan, a common keyword

KwOo == <<"o", "o">>                  \* a keyword that can overlap itself

KwSpace == <<" ">>                    \* a keyword of white space

\* the keywords in one iteration order of a Python set, and in another
KeywordOrders ==
  { <<KwConan, KwTruth, KwFound, KwAptx, KwEscape, KwParen, KwAi, KwLan, KwOo, KwSpace>>,
    <<KwSpace, KwOo, KwLan, KwAi, KwParen, KwEscape, KwAptx, KwFound, KwTruth, KwConan>> }

\* n copies of a word
RECURSIVE Times(_, _)
Times(word, n) == IF n = 0 THEN <<>> ELSE word \o Times(word, n - 1)

\* "doc1": the 21 characters of the specification's scenario, three
\* sentences each closed by u3002
DocScenario ==
  << <<"doc1">>,
     <<"u67EF", "u5357", "u53D1", "u73B0", "u4E86", "u771F", "u76F8", "u3002",
       "u65B0", "u4E00", "u559C", "u6B22", "u5C0F", "u5170", "u3002",
       "u5C0F", "u5170", "u5F88", "u5F00", "u5FC3", "u3002">> >>

\* 900 characters: Ke Nan at 50 and at 800, "aptx" at 280, sentence ends at
\* 299 and 499
DocNested ==
  << <<"nested">>,
     Rep("z", 50) \o KwConan \o Rep("z", 228) \o <<"a", "p", "t", "x">>
       \o Rep("z", 15) \o <<"u3002">> \o Rep("z", 199) \o <<"u3002">>
       \o Rep("z", 300) \o KwConan \o Rep("z", 98) >>

\* 4000 characters without a sentence end, "aptx" at 2000
DocHuge ==
  << <<"2010", "Long", "Talk", "CN">>, Rep("z", 2000) \o <<"a", "p", "t", "x">> \o Rep("z", 1996) >>

\* 500 characters without a sentence end, "aptx" at 250
DocLong ==
  << <<"2003", "M7", "Aoyama", "JP">>,
     Rep("z", 250) \o <<"a", "p", "t", "x">> \o Rep("z", 246) >>

\* 25 characters: "case Aptx (\d) files zzzz" and a sentence end
DocShort ==
  << <<"short">>,
     <<"c", "a", "s", "e", " ", "A", "p", "t", "x", " ", "(", "\\", "d", ")", " ",
       "f", "i", "l", "e", "s", " ", "z", "z", "z", "u3002">> >>

\* 750 characters: "aptx" at 99, sentence ends at 299 and 349, Fa Xian at
\* 550; the two snippets are [0, 300) and [350, 750), 50 apart
DocGap ==
  << <<"2015", "Gap", "Ed", "CN">>,
     Rep("z", 99) \o <<"a", "p", "t", "x">> \o Rep("z", 196) \o <<"u3002">>
       \o Rep("z", 49) \o <<"u3002">> \o Rep("z", 200) \o KwFound \o Rep("z", 198) >>

\* 400 characters: "aptx" at 50, a sentence end at 90, Ke Nan at 300
DocRepeat ==
  << <<"repeat">>,
     Rep("z", 50) \o <<"a", "p", "t", "x">> \o Rep("z", 36) \o <<"u3002">>
       \o Rep("z", 209) \o KwConan \o Rep("z", 98) >>

\* 900 characters: Ke Nan at 50, "aptx" at 280, sentence ends at 299 and 499,
\* Fa Xian at 800
DocChain ==
  << <<"chain">>,
     Rep("z", 50) \o KwConan \o Rep("z", 228) \o <<"a", "p", "t", "x">>
       \o Rep("z", 15) \o <<"u3002">> \o Rep("z", 199) \o <<"u3002">>
       \o Rep("z", 300) \o KwFound \o Rep("z", 98) >>

\* common keywords at the edges of the frequency bands: Ai 101 times (each
\* at the head of a sentence of 40 characters), u862D 100 times, Bo Shi 51,
\* Zhen Tan 50, An Jian 21, Tui Li 20, Xiao Lan 19
DocFreq ==
  << <<"freq">>,
     Times(KwAi \o Rep("z", 38) \o <<"u3002">>, 101) \o Times(<<"u862D">>, 100) \o <<"z">>
       \o Times(<<"u535A", "u58EB">>, 51) \o <<"z">>
       \o Times(<<"u4FA6", "u63A2">>, 50) \o <<"z">>
       \o Times(<<"u6848", "u4EF6">>, 21) \o <<"z">>
       \o Times(<<"u63A8", "u7406">>, 20) \o <<"z">>
       \o Times(KwLan, 19) >>

\* a document of white space only
DocBlank == << <<"blank">>, <<" ", "\n", "\t">> >>

\* 13 characters: "ooooo Oo zoo."
DocOverlap ==
  << <<"overlap">>,
     <<"o", "o", "o", "o", "o", " ", "O", "o", " ", "z", "o", "o", ".">> >>

\* the text of the scenario under a file name that has a source label
DocNote == << <<"2011", "Note", "Fan", "CN">>, DocScenario[2] >>

Corpora == { <<>>, <<DocScenario>>, <<DocNested>>, <<DocLong, DocShort>>, <<DocNested, DocHuge>> }

\* corpora that are each queried with a few queries of their own
CaseCorpora ==
  { <<DocGap>>, <<DocRepeat>>, <<DocChain>>, <<DocFreq>>, <<DocFreq, DocScenario>>,
    <<DocBlank, DocOverlap>>, <<DocNested, DocShort>>, <<DocGap, DocShort, DocNote>> }

\* <<keywords, max_length>>
Queries ==
  { << <<>>, 10000 >>,
    << <<KwTruth>>, 10000 >>,
    << <<KwFound>>, 10000 >>,
    << <<KwConan, KwTruth>>, 10000 >>,
    << <<KwConan, KwConan>>, 10000 >>,
    << <<KwAptx>>, 10 >>,
    << <<KwAptx>>, 300 >>,
    << <<KwAptx>>, 10000 >>,
    << <<KwAptx, KwConan>>, 10000 >>,
    << <<KwConan, KwAptx>>, 10000 >>,
    << <<KwEscape>>, 10000 >>,
    << <<KwParen>>, 10000 >> }

\* the queries made of a corpus
QueriesFor(cache) ==
  CASE cache = <<DocGap>> ->
         { << <<KwAptx, KwFound>>, 10000 >>, << <<KwFound, KwAptx>>, 10000 >>,
           << <<KwAptx>>, 10000 >>, << <<KwAptx>>, 0 >> }
    [] cache = <<DocRepeat>> ->
         { << <<KwConan, KwConan, KwAptx>>, 10000 >>, << <<KwAptx, KwAptx>>, 10000 >>,
           << <<KwConan>>, 10000 >> }
    [] cache = <<DocChain>> ->
         { << <<KwAptx, KwConan, KwFound>>, 10000 >>,
           << <<KwConan, KwAptx, KwFound>>, 10000 >>, << <<KwFound>>, 10000 >> }
    [] cache \in { <<DocFreq>>, <<DocFreq, DocScenario>> } ->
         { << <<KwAi>>, 10000 >>, << <<KwLan>>, 10000 >>, << <<KwLan, KwFound>>, 10000 >> }
    [] cache = <<DocBlank, DocOverlap>> ->
         { << <<KwOo, KwSpace>>, 10000 >>, << <<KwSpace>>, 10000 >>, << <<KwOo>>, 10000 >> }
    [] cache = <<DocNested, DocShort>> ->
         { << <<KwAptx>>, 10000 >>, << <<KwAptx>>, 300 >>, << <<KwParen>>, 10000 >>,
           << <<KwAptx>>, 0 >> }
    [] cache = <<DocGap, DocShort, DocNote>> ->
         { << <<KwAptx, KwFound>>, 728 >>, << <<KwAptx, KwFound>>, 10000 >>,
           << <<KwFound>>, 10000 >> }
    [] OTHER -> Queries

MaxCalls == 2

(***************************************************************************)
(* The service: constructed once, then queried                             *)
(***************************************************************************)
NoCall ==
  [called |-> FALSE, keywords |-> <<>>, max_length |-> 0, raised |-> FALSE] @@ NoResults

Init ==
  /\ interview_cache \in Corpora \cup CaseCorpora
  /\ keyword_frequencies = calculate_keyword_frequencies(interview_cache)
  /\ set_order \in KeywordOrders
  /\ last = NoCall
  /\ history = <<>>
  /\ calls = 0

\* a variant in which the truncation of _select_top_results writes through
\* to the cached document the snippet was cut from
SearchKeywords_aliased(keywords, max_length) ==
  /\ calls < MaxCalls
  /\ last' = [called |-> TRUE, keywords |-> keywords, max_length |-> max_length]
               @@ search_keywords(keywords, max_length)
  /\ history' = IF <<keywords, max_length>> \in DOMAIN history THEN history
                ELSE history @@ (<<keywords, max_length>> :>
                                   [raised |-> last'.raised, result |-> last'.result])
  /\ calls' = calls + 1
  /\ interview_cache' =
        [i \in 1..Len(interview_cache) |->
           IF /\ Len(last'.result) = 1
              /\ last'.result[1].text # last'.sorted_results[1].text
              /\ interview_cache[i][1] \in last'.result[1].file_paths
           THEN <<interview_cache[i][1], last'.result[1].text>>
           ELSE interview_cache[i]]
  /\ UNCHANGED <<keyword_frequencies, set_order>>

\* a variant that counts every queried common keyword into the frequency table
SearchKeywords_counting(keywords, max_length) ==
  /\ calls < MaxCalls
  /\ last' = [called |-> TRUE, keywords |-> keywords, max_length |-> max_length]
               @@ search_keywords(keywords, max_length)
  /\ history' = IF <<keywords, max_length>> \in DOMAIN history THEN history
                ELSE history @@ (<<keywords, max_length>> :>
                                   [raised |-> last'.raised, result |-> last'.result])
  /\ calls' = calls + 1
  /\ keyword_frequencies' =
       [kw \in DOMAIN keyword_frequencies |->
          IF kw \in Range(keywords) THEN keyword_frequencies[kw] + 1
          ELSE keyword_frequencies[kw]]
  /\ UNCHANGED <<interview_cache, set_order>>

\* history is the record of the calls made so far: what the first call with
\* each <<keywords, max_length>> returned
SearchKeywords(keywords, max_length) ==
  /\ calls < MaxCalls
  /\ last' = [called |-> TRUE, keywords |-> keywords, max_length |-> max_length]
               @@ search_keywords(keywords, max_length)
  /\ history' = IF <<keywords, max_length>> \in DOMAIN history THEN history
                ELSE history @@ (<<keywords, max_length>> :>
                                   [raised |-> last'.raised, result |-> last'.result])
  /\ calls' = calls + 1
  /\ UNCHANGED <<interview_cache, keyword_frequencies, set_order>>

Next == \E q \in QueriesFor(interview_cache) : SearchKeywords(q[1], q[2])

Spec == Init /\ [][Next]_vars

(***************************************************************************)
(* Properties                                                              *)
(***************************************************************************)
Query == <<last.keywords, last.max_length>>

Returned == {last.result[i] : i \in 1..Len(last.result)}

RECURSIVE SumLen(_)
SumLen(results) ==
  IF results = <<>> THEN 0 ELSE Len(Head(results).text) + SumLen(Tail(results))

\* the text of the cached document file_path
DocumentText(file_path) ==
  LET i == CHOOSE j \in 1..Len(interview_cache) : interview_cache[j][1] = file_path
  IN interview_cache[i][2]

SetMax(S) == CHOOSE m \in S : \A x \in S : x <= m

\* the first returned snippet was cut short by _select_top_results
TruncatedCall ==
  /\ last.called
  /\ Len(last.result) = 1
  /\ last.result[1].text # last.sorted_results[1].text

\* C1: the texts of the returned snippets add up to at most max_length,
\* also when the one returned snippet is a truncated one.
BudgetRespected == last.called => SumLen(last.result) <= last.max_length

\* C2: the keywords_found of every returned snippet are among the query's
\* keywords, and each of them occurs in the snippet's text up to case.
KeywordPresence ==
  \A r \in Returned :
    /\ Range(r.keywords_found) \subseteq Range(last.keywords)
    /\ \A kw \in Range(r.keywords_found) : Search(kw, r.text)

\* C3: every returned snippet has 0 <= start_position <= end_position <=
\* the length of its document, and a merged snippet spans from the least
\* start to the greatest end of the snippets merged into it.
PositionInvariant ==
  \A r \in Returned :
    /\ 0 <= r.start_position
    /\ r.start_position <= r.end_position
    /\ \A f \in r.file_paths : r.end_position <= Len(DocumentText(f))
    /\ r.start_position = SetMin({sp[1] : sp \in r.spans})
    /\ r.end_position = SetMax({sp[2] : sp \in r.spans})

\* C4: every returned snippet, scored directly or by merging, has
\* relevance_score >= 0.1.
ScoreFloorHolds == \A r \in Returned : RLeq(ScoreFloor, r.relevance_score)

\* a call that returned a merged snippet and a snippet scored at the floor
ScoreFloorWitness ==
  /\ \E r \in Returned : Cardinality(r.spans) >= 2
  /\ \E r \in Returned : Cardinality(r.spans) = 1 /\ r.relevance_score = ScoreFloor

\* C5: the returned list is in non-increasing order of relevance_score.
SortedByScore ==
  \A i \in 1..(Len(last.result) - 1) :
    RLeq(last.result[i + 1].relevance_score, last.result[i].relevance_score)

\* a call that returned two snippets which deduplication had produced in
\* increasing order of score
SortedWitness ==
  /\ Len(last.result) >= 2
  /\ Len(last.deduplicated) >= 2
  /\ RLess(last.deduplicated[1].relevance_score, last.deduplicated[2].relevance_score)
  /\ RLess(last.result[2].relevance_score, last.result[1].relevance_score)

\* C6: a call returns what the first call with the same keywords and
\* max_length on this service returned, whatever was queried in between.
Deterministic ==
  last.called =>
    /\ Query \in DOMAIN history
    /\ history[Query].raised = last.raised
    /\ history[Query].result = last.result

\* the same query made twice, truncating its snippet both times
DeterministicWitness ==
  /\ calls = 2
  /\ Cardinality(DOMAIN history) = 1
  /\ TruncatedCall

\* C7: an empty keyword list, or an empty corpus, gives the empty list and
\* no exception.
EmptyInputsGiveEmptyList ==
  (last.called /\ (last.keywords = <<>> \/ interview_cache = <<>>)) =>
    (~last.raised /\ last.result = <<>>)

\* the empty keyword list queried on a service that returned snippets for
\* another query
EmptyInputsWitness ==
  /\ last.called
  /\ last.keywords = <<>>
  /\ \E q \in DOMAIN history : history[q].result # <<>>

\* C8: no call raises.
NeverRaises == ~last.raised

\* the scenario: corpus {doc1}, keywords [Zhen Xiang]
ScenarioCall ==
  /\ last.called
  /\ interview_cache = <<DocScenario>>
  /\ last.keywords = <<KwTruth>>

\* C9 as stated: the scenario returns exactly one snippet, from doc1, with
\* the keyword in its text and marked in its highlighted_text.
ScenarioOneSnippet ==
  ScenarioCall =>
    /\ Len(last.result) = 1
    /\ last.result[1].file_paths = {DocScenario[1]}
    /\ Search(KwTruth, last.result[1].text)
    /\ \E i \in 0..Len(last.result[1].highlighted_text) :
         MatchAt(last.result[1].highlighted_text, Template(KwTruth), i)

\* C9 amended: the scenario returns the empty list; its one extracted
\* snippet, the whole of doc1 with keywords_found = [Zhen Xiang], is
\* discarded by the pre-filter because Zhen Xiang is a common keyword.
ScenarioFiltered ==
  ScenarioCall =>
    /\ ~last.raised
    /\ last.result = <<>>
    /\ Len(last.filtered) = 1
    /\ last.filtered[1].text = DocScenario[2]
    /\ last.filtered[1].keywords_found = <<KwTruth>>

\* the scenario was queried and its snippet was extracted and discarded
ScenarioWitness == ScenarioCall /\ Len(last.filtered) = 1

\* keywords_found that the pre-filter is to discard
OnlyOneCommon(keywords_found) ==
  /\ \A kw \in Range(keywords_found) : kw \in common_keywords
  /\ Cardinality(Range(keywords_found)) < 2

\* C10: an extracted snippet is discarded exactly when all its keywords are
\* common and fewer than 2 are distinct; so no returned snippet is of that
\* kind, and a query of one common keyword returns nothing.
PreFilter ==
  /\ \A i \in 1..Len(last.filtered) : OnlyOneCommon(last.filtered[i].keywords_found)
  /\ \A i \in 1..Len(last.search_results) :
       ~OnlyOneCommon(last.search_results[i].keywords_found)
  /\ \A r \in Returned : ~OnlyOneCommon(r.keywords_found)
  /\ (Len(last.keywords) = 1 /\ last.keywords[1] \in common_keywords) => last.result = <<>>

\* a call in which the pre-filter discarded one snippet and kept another
PreFilterWitness ==
  /\ last.filtered # <<>>
  /\ last.result # <<>>

\* the snippets of a list that carry one source label, in the list's order
OfSource(results, source) == SelectSeq(results, LAMBDA r : r.source = source)

SourceLabels(results) == {results[i].source : i \in 1..Len(results)}

\* of two snippets, the one that starts first (the first of the two when
\* they start together), and the other one
Earlier(pair) ==
  IF pair[2].start_position < pair[1].start_position THEN pair[2] ELSE pair[1]

Later(pair) ==
  IF pair[2].start_position < pair[1].start_position THEN pair[1] ELSE pair[2]

\* a source label under which _deduplicate_results received exactly two
\* snippets, both of one document, less than 100 apart
CloseTwo(source) ==
  LET pair == OfSource(last.search_results, source)
  IN /\ Len(pair) = 2
     /\ pair[1].file_paths = pair[2].file_paths
     /\ Later(pair).start_position - Earlier(pair).end_position < 100

\* C11: two snippets of one document whose gap (later.start_position -
\* earlier.end_position) is below 100 leave _deduplicate_results as one
\* snippet: keywords_found is the set union of both lists, relevance_score
\* is earlier.score + 0.5 * later.score, start_position is the earlier
\* one's and end_position the later one's.
MergedTwo ==
  \A source \in SourceLabels(last.search_results) :
    CloseTwo(source) =>
      LET pair == OfSource(last.search_results, source)
          out == OfSource(last.deduplicated, source)
      IN /\ Len(out) = 1
         /\ Range(out[1].keywords_found) =
              Range(Earlier(pair).keywords_found) \cup Range(Later(pair).keywords_found)
         /\ Len(out[1].keywords_found) = Cardinality(Range(out[1].keywords_found))
         /\ out[1].relevance_score =
              RAdd(Earlier(pair).relevance_score, RHalf(Later(pair).relevance_score))
         /\ out[1].start_position = Earlier(pair).start_position
         /\ out[1].end_position = Later(pair).end_position

\* two snippets of one document, 50 apart and with different keywords, were
\* merged into one
MergedTwoWitness ==
  \E source \in SourceLabels(last.search_results) :
    /\ CloseTwo(source)
    /\ LET pair == OfSource(last.search_results, source)
       IN /\ Later(pair).start_position - Earlier(pair).end_position = 50
          /\ Earlier(pair).keywords_found # Later(pair).keywords_found
    /\ Len(OfSource(last.deduplicated, source)) = 1

\* C12: _deduplicate_results merges only snippets of one document: no output
\* snippet combines snippets extracted from different corpus documents,
\* whatever label the metadata resolver gives the documents.
MergesWithinDocument ==
  \A i \in 1..Len(last.deduplicated) : Cardinality(last.deduplicated[i].file_paths) = 1

\* C13: after _deduplicate_results no two output snippets of one source
\* overlap or are adjacent: of two output snippets of one source, every input
\* snippet merged into the later one starts at least 100 characters after
\* the end of every input snippet merged into the earlier one.
OutputsApart ==
  \A source \in SourceLabels(last.deduplicated) :
    LET out == OfSource(last.deduplicated, source)
    IN \A i, j \in 1..Len(out) :
         i < j => \A a \in out[i].spans, b \in out[j].spans : b[1] - a[2] >= 100

\* the number of case-insensitive occurrences of a keyword in the documents
\* of the corpus, document by document
RECURSIVE Occurrences(_, _)
Occurrences(cache, keyword) ==
  IF cache = <<>> THEN 0
  ELSE Cardinality(MatchStarts(cache[1][2], keyword)) + Occurrences(Tail(cache), keyword)

\* the importance, in tenths, that a common keyword of frequency f is to get
Level(f) == IF f > 100 THEN 2 ELSE IF 50 < f /\ f <= 100 THEN 4
            ELSE IF 20 < f /\ f <= 50 THEN 6 ELSE 8

\* the keywords that the queries are made of
QueryKeywords == UNION {Range(order) : order \in KeywordOrders}

\* C14: _get_keyword_importance is 1.0 outside the common registry and, for a
\* common keyword of corpus frequency f, 0.2 if f > 100, 0.4 if 50 < f <= 100,
\* 0.6 if 20 < f <= 50 and 0.8 if f <= 20, f being the number of
\* case-insensitive occurrences over all documents counted at construction;
\* the result is in (0, 1].  The table is compared with the documents when
\* it has just been built, and at every call for the keywords of the call.
ImportanceLevels ==
  /\ ~last.called =>
       \A kw \in common_keywords : keyword_frequencies[kw] = Occurrences(interview_cache, kw)
  /\ \A kw \in common_keywords :
       get_keyword_importance(kw) = Level(keyword_frequencies[kw])
  /\ \A kw \in QueryKeywords \ common_keywords : get_keyword_importance(kw) = 10
  /\ \A kw \in common_keywords \cup QueryKeywords :
       0 < get_keyword_importance(kw) /\ get_keyword_importance(kw) <= 10
  /\ \A kw \in DOMAIN last.keyword_importance :
       last.keyword_importance[kw] =
         IF kw \in common_keywords THEN Level(Occurrences(interview_cache, kw)) ELSE 10

\* a call computed the importance of a keyword that occurs 101 times, and
\* the corpus has common keywords of frequency 100, 51, 50, 21 and 20
ImportanceLevelsWitness ==
  /\ last.called
  /\ \E kw \in DOMAIN last.keyword_importance :
       /\ kw \in common_keywords
       /\ Occurrences(interview_cache, kw) = 101
       /\ last.keyword_importance[kw] = 2
  /\ \A f \in {100, 51, 50, 21, 20} :
       \E kw \in common_keywords : Occurrences(interview_cache, kw) = f

\* C15: of two common keywords, the one of greater cached frequency has the
\* smaller or the same importance.
ImportanceMonotone ==
  \A a, b \in common_keywords :
    keyword_frequencies[a] > keyword_frequencies[b] =>
      get_keyword_importance(a) <= get_keyword_importance(b)

\* a call computed the importance of a common keyword that is more frequent
\* than another and has a strictly smaller importance, and all four levels
\* occur
ImportanceMonotoneWitness ==
  /\ last.called
  /\ \E a \in DOMAIN last.keyword_importance \cap common_keywords :
       \E b \in common_keywords :
         /\ keyword_frequencies[a] > keyword_frequencies[b]
         /\ last.keyword_importance[a] < get_keyword_importance(b)
  /\ {get_keyword_importance(kw) : kw \in common_keywords} = {2, 4, 6, 8}

\* the number of calls of get_interview_metadata for a file during the last
\* call of search_keywords
ResolverCalls(file_path) ==
  Cardinality({i \in 1..Len(last.resolver_log) : last.resolver_log[i] = file_path})

\* C16: during one search_keywords call get_interview_metadata is called
\* once per matched document, however many keyword occurrences the document
\* has.
ResolverOncePerDocument ==
  \A i \in 1..Len(interview_cache) : ResolverCalls(interview_cache[i][1]) <= 1

\* C17: keywords_found of every returned snippet holds no keyword twice,
\* also when the caller repeats a keyword in the keyword list.
NoKeywordTwice ==
  \A i \in 1..Len(last.result) :
    Len(last.result[i].keywords_found) = Cardinality(Range(last.result[i].keywords_found))

\* the number of match records of the last call for a keyword at a position
\* of a file
RecordsAt(file_path, keyword, position) ==
  Cardinality({i \in 1..Len(last.all_matches) :
                 last.all_matches[i] =
                   [keyword |-> keyword, file_path |-> file_path, position |-> position]})

\* the number of entries of the last call's keyword list that are `keyword`
Entries(keyword) ==
  Cardinality({i \in 1..Len(last.keywords) : last.keywords[i] = keyword})

\* P is the set of the non-overlapping occurrences of a keyword in a text,
\* taken from the left: an occurrence is in P unless it starts inside an
\* occurrence of P to its left
LeftmostOccurrences(text, keyword, P) ==
  LET occurrences == MatchStarts(text, keyword)
  IN /\ P \subseteq occurrences
     /\ \A p \in occurrences :
          p \in P <=> ~\E q \in P : q < p /\ p < q + Len(keyword)

WhitespaceOnly(text) == \A i \in 1..Len(text) : text[i] \in Whitespace

\* C18: _find_all_matches emits one match record per non-overlapping,
\* case-insensitive, literal occurrence of each keyword (of each entry of
\* the keyword list) in each document that is not empty or white space
\* only, positioned at the start of the occurrence; nothing for documents of
\* white space only; the empty list for an empty keyword list or corpus.
OneMatchPerOccurrence ==
  /\ \A i \in 1..Len(last.all_matches) :
       /\ last.all_matches[i].keyword \in Range(last.keywords)
       /\ \E d \in 1..Len(interview_cache) :
            interview_cache[d][1] = last.all_matches[i].file_path
  /\ \A d \in 1..Len(interview_cache) :
       \A keyword \in Range(last.keywords) :
         LET file_path == interview_cache[d][1]
             text == interview_cache[d][2]
             P == {last.all_matches[i].position :
                     i \in {j \in 1..Len(last.all_matches) :
                              /\ last.all_matches[j].file_path = file_path
                              /\ last.all_matches[j].keyword = keyword}}
         IN IF WhitespaceOnly(text) THEN P = {}
            ELSE /\ LeftmostOccurrences(text, keyword, P)
                 /\ \A p \in P : RecordsAt(file_path, keyword, p) = Entries(keyword)
  /\ (last.keywords = <<>> \/ interview_cache = <<>>) => last.all_matches = <<>>
  /\ find_all_matches(<<>>) = <<>>
  /\ interview_cache = <<>> => \A order \in KeywordOrders : find_all_matches(order) = <<>>

\* a call found matches in a corpus that has a document of white space in
\* which a keyword of the call occurs, and passed over an occurrence that
\* overlaps an earlier one
OneMatchPerOccurrenceWitness ==
  /\ last.called
  /\ last.all_matches # <<>>
  /\ \E d \in 1..Len(interview_cache) :
       /\ WhitespaceOnly(interview_cache[d][2])
       /\ \E keyword \in Range(last.keywords) : Search(keyword, interview_cache[d][2])
  /\ \E d \in 1..Len(interview_cache) :
       \E keyword \in Range(last.keywords) :
         \E p \in MatchStarts(interview_cache[d][2], keyword) :
           /\ ~WhitespaceOnly(interview_cache[d][2])
           /\ RecordsAt(interview_cache[d][1], keyword, p) = 0

\* the number of white-space characters at the head of the part
\* [from, to) of a text, and at its tail
LeadingSpace(text, from, to) ==
  CHOOSE k \in 0..(to - from) :
    /\ from + k = to \/ text[from + k + 1] \notin Whitespace
    /\ \A j \in 0..(k - 1) : text[from + j + 1] \in Whitespace

TrailingSpace(text, from, to) ==
  CHOOSE k \in 0..(to - from) :
    /\ to - k = from \/ text[to - k] \notin Whitespace
    /\ \A j \in 0..(k - 1) : text[to - j] \in Whitespace

\* what C19 says of one extracted snippet: e.window is the radius window
\* around the match at e.position
SentenceBounded(e) ==
  LET document == DocumentText(e.file_path)
      start == e.start_position
      end == e.end_position
  IN /\ \E radius \in {120, 160, 200} :
          /\ e.window[1] = Max(0, e.position - radius)
          /\ e.window[2] = Min(Len(document), e.position + radius)
     \* 0, or just after a delimiter, with no delimiter from there to the window
     /\ 0 <= start /\ start <= e.window[1]
     /\ start = 0 \/ document[start] \in sentence_delimiters
     /\ \A i \in start..(e.window[1] - 1) : document[i + 1] \notin sentence_delimiters
     \* the end of the document, or just after a delimiter, with no delimiter
     \* from the end of the window to that one
     /\ e.window[2] <= end /\ end <= Len(document)
     /\ end = Len(document) \/ (end > e.window[2] /\ document[end] \in sentence_delimiters)
     /\ \A i \in e.window[2]..(end - 2) : document[i + 1] \notin sentence_delimiters
     /\ start <= e.position /\ e.position < end
     /\ e.text =
          SubSeq(document, start + LeadingSpace(document, start, end) + 1,
                 end - TrailingSpace(document, start, end))

\* C19: a snippet of _extract_context starts at 0 or just after the nearest
\* sentence delimiter before the start of the radius window, ends at the end
\* of the document or just after the first delimiter at or beyond the end
\* of the window, the interval [start_position, end_position) holds the
\* whole window and the match offset, and text is that part of the document
\* with the white space around it trimmed.
SentenceBoundaries ==
  \A i \in 1..Len(last.extracted) : SentenceBounded(last.extracted[i])

\* a snippet that ends just after a delimiter standing at the end of its
\* window, and one that starts just after a delimiter standing right before
\* its window
SentenceBoundariesWitness ==
  /\ \E i \in 1..Len(last.extracted) :
       LET e == last.extracted[i]
       IN /\ e.end_position = e.window[2] + 1
          /\ e.end_position < Len(DocumentText(e.file_path))
  /\ \E i \in 1..Len(last.extracted) :
       LET e == last.extracted[i]
       IN e.window[1] > 0 /\ e.start_position = e.window[1]

\* the returned snippet is the one of rank i: the very snippet, or, when the
\* first snippet alone is over the budget, that snippet with its text cut
\* short (the code cuts the text of the list's own object, so the list it
\* was handed then holds the cut snippet at rank 1)
IsRank(returned, i) ==
  LET ranked == last.sorted_results[i]
  IN \/ returned = ranked
     \/ /\ i = 1
        /\ Len(last.result) = 1
        /\ Len(ranked.text) > last.max_length
        /\ [returned EXCEPT !.text = ranked.text,
                            !.highlighted_text = ranked.highlighted_text] = ranked

\* C20: _select_top_results returns a prefix of its score-sorted input: it
\* accepts snippets in rank order while the running total of len(text) stays
\* <= max_length and stops at the first snippet that would exceed it, so no
\* snippet ranked after a rejected one is returned, even if it would fit.
PrefixOfRanking ==
  LET n == Len(last.result)
      sorted == last.sorted_results
  IN /\ n <= Len(sorted)
     /\ \A i \in 1..n : IsRank(last.result[i], i)
     /\ \A i \in 1..n :
          last.result[i] = sorted[i] => SumLen(SubSeq(sorted, 1, i)) <= last.max_length
     /\ n < Len(sorted) => SumLen(SubSeq(sorted, 1, n + 1)) > last.max_length

\* a call in which the second snippet of the ranking did not fit and the
\* third one, which would have fitted, was not returned
PrefixOfRankingWitness ==
  /\ Len(last.result) = 1
  /\ Len(last.sorted_results) = 3
  /\ last.result[1] = last.sorted_results[1]
  /\ Len(last.sorted_results[1].text) + Len(last.sorted_results[2].text) > last.max_length
  /\ Len(last.sorted_results[1].text) + Len(last.sorted_results[3].text) <= last.max_length

\* the first n characters of text: none of them when n <= 0, all of them
\* when n exceeds len(text)
FirstChars(text, n) == SubSeq(text, 1, Min(Max(n, 0), Len(text)))

\* the top-ranked snippet alone is longer than max_length
FirstTooLong ==
  /\ last.called
  /\ last.sorted_results # <<>>
  /\ Len(last.sorted_results[1].text) > last.max_length

\* C21: when the first candidate of _select_top_results alone is longer than
\* max_length, the output is exactly that one snippet with its text replaced
\* by the first (max_length - 100) characters of the original text followed
\* by "...", and with highlighted_text recomputed from the truncated text; no
\* further snippet is accepted.
TruncationForm ==
  FirstTooLong =>
    LET first == last.sorted_results[1]
        truncated_text ==
          FirstChars(first.text, last.max_length - truncate_margin) \o Ellipsis
    IN last.result =
         << [first EXCEPT !.text = truncated_text,
                          !.highlighted_text =
                             highlight_keywords(truncated_text, first.keywords_found)] >>

\* the snippets that _extract_context scored in the last call: the ones the
\* pre-filter kept and the ones it discarded
Scored ==
  {last.search_results[i] : i \in 1..Len(last.search_results)}
    \cup {last.filtered[i] : i \in 1..Len(last.filtered)}

RMul(p, q) == Frac(p[1] * q[1], p[2] * q[2])

RNeg(p) == <<-p[1], p[2]>>

\* importance(k) as a fraction
Importance(k) == Frac(get_keyword_importance(k), 10)

\* sum of importance(k) over the list
RECURSIVE ImportanceTotal(_)
ImportanceTotal(kws) ==
  IF kws = <<>> THEN <<0, 1>>
  ELSE RAdd(Importance(Head(kws)), ImportanceTotal(Tail(kws)))

\* sum of len(k) * importance(k) over the list
RECURSIVE LengthTimesImportance(_)
LengthTimesImportance(kws) ==
  IF kws = <<>> THEN <<0, 1>>
  ELSE RAdd(RMul(<<Len(Head(kws)), 1>>, Importance(Head(kws))),
            LengthTimesImportance(Tail(kws)))

\* max(0.1, importance_sum + density_bonus - length_penalty), term by term
StatedScore(text, keywords_found) ==
  LET n == Len(keywords_found)
      importance_sum == RMul(<<2, 1>>, ImportanceTotal(keywords_found))
      mean_importance == RMul(ImportanceTotal(keywords_found), <<1, n>>)
      several == IF n > 1 THEN RMul(<<n, 2>>, mean_importance) ELSE <<0, 1>>
      density == RMul(<<3, Len(text)>>, LengthTimesImportance(keywords_found))
      density_bonus == RAdd(several, density)
      length_penalty == Frac(Len(text), 2000)
      final_score == RAdd(RAdd(importance_sum, density_bonus), RNeg(length_penalty))
  IN IF RLess(final_score, ScoreFloor) THEN ScoreFloor ELSE final_score

\* C22: _calculate_relevance_score(text, keywords_found) for a non-empty
\* keyword list equals max(0.1, importance_sum + density_bonus -
\* length_penalty) with importance_sum = sum of 2.0 * importance(k),
\* density_bonus = (0.5 * n * mean importance if n > 1 else 0) + 3 * (sum of
\* len(k) * importance(k)) / len(text) and length_penalty = len(text) / 2000,
\* n = len(keywords_found); the result depends only on the text length, the
\* keywords and the cached importances.
ScoreFormula ==
  \A r \in Scored :
    /\ r.keywords_found # <<>>
    /\ r.text # <<>>
    /\ r.relevance_score = StatedScore(r.text, r.keywords_found)
    /\ \A other \in Scored :
         Len(other.text) = Len(r.text) /\ other.keywords_found = r.keywords_found
           => other.relevance_score = r.relevance_score

\* a call that scored a snippet of several keywords above the floor, one of
\* them a common keyword of importance below 1
ScoreFormulaWitness ==
  \E r \in Scored :
    /\ Len(r.keywords_found) > 1
    /\ RLess(ScoreFloor, r.relevance_score)
    /\ \E i \in 1..Len(r.keywords_found) : get_keyword_importance(r.keywords_found[i]) < 10

\* a call that scored a snippet at the floor
ScoreClampedCase == \E r \in Scored : r.relevance_score = ScoreFloor

\* the offsets of the characters of the markers <mark> and </mark> in text
MarkerOffsets(text) ==
  UNION {i..(i + Len(MarkOpen) - 1) : i \in MatchStarts(text, MarkOpen)}
    \cup UNION {i..(i + Len(MarkClose) - 1) : i \in MatchStarts(text, MarkClose)}

\* text with the markers deleted
Unmarked(text) ==
  LET markers == MarkerOffsets(text)
      kept == SelectSeq([i \in 1..Len(text) |-> i - 1], LAMBDA i : i \notin markers)
  IN [k \in 1..Len(kept) |-> text[kept[k] + 1]]

\* the occurrence of kw at offset i of text stands between <mark> and </mark>
Wrapped(text, kw, i) ==
  /\ i >= Len(MarkOpen)
  /\ Slice(text, i - Len(MarkOpen), i) = MarkOpen
  /\ Slice(text, i + Len(kw), i + Len(kw) + Len(MarkClose)) = MarkClose

\* C23: for every snippet returned by search_keywords, highlighted_text is
\* text with every case-insensitive occurrence of every keyword of
\* keywords_found wrapped in <mark>...</mark> and nothing else changed, so
\* deleting the inserted markers from highlighted_text gives back text
\* character for character.
HighlightOnlyMarks ==
  \A r \in Returned :
    /\ Unmarked(r.highlighted_text) = r.text
    /\ \A kw \in Range(r.keywords_found) :
         LET found == FindIter(kw, r.highlighted_text)
         IN \A k \in 1..Len(found) : Wrapped(r.highlighted_text, kw, found[k])

\* C24: any sequence of search_keywords calls leaves the corpus mapping and
\* the keyword-frequency table of the service unchanged: after construction
\* no query writes to either, and _get_keyword_importance(k) returns the
\* same value before and after every query.
CorpusAndTableUnchanged ==
  [][/\ interview_cache' = interview_cache
     /\ keyword_frequencies' = keyword_frequencies
     /\ \A kw \in common_keywords \cup QueryKeywords :
          get_keyword_importance(kw)' = get_keyword_importance(kw)]_vars

\* a second call has returned snippets for a query with a common keyword,
\* and the table is still the one counted from the corpus
CorpusAndTableWitness ==
  /\ calls >= 2
  /\ last.result # <<>>
  /\ \E kw \in Range(last.keywords) : kw \in common_keywords
  /\ keyword_frequencies = calculate_keyword_frequencies(interview_cache)

\* C25: _select_top_results returns a non-empty list whenever its input list
\* is non-empty, for every max_length (0 and values below 100 included): the
\* top-ranked snippet is always accepted, whole or truncated; hence
\* search_keywords returns an empty list only if no snippet survives
\* extraction and the pre-filter.
TopAlwaysAccepted ==
  /\ last.sorted_results # <<>> =>
       /\ last.result # <<>>
       /\ IsRank(last.result[1], 1)
  /\ (last.called /\ ~last.raised /\ last.result = <<>>) =>
       /\ last.search_results = <<>>
       /\ last.sorted_results = <<>>

\* a call with max_length = 0 that returned its top-ranked snippet truncated
TopAlwaysAcceptedWitness ==
  /\ last.called
  /\ last.max_length = 0
  /\ Len(last.result) = 1
  /\ last.result[1].text # last.sorted_results[1].text

\* the snippets handed to _deduplicate_results and the ones it returned
DedupInput == last.search_results

DedupOutput == last.deduplicated

\* C26: _deduplicate_results terminates on every finite input and partitions
\* it: each input snippet is absorbed into exactly one output snippet (none
\* lost, none used twice), the number of output snippets is at most the
\* number of input snippets, and every keyword of an input snippet appears
\* in keywords_found of the output snippet that absorbed it.
DedupPartitions ==
  /\ Len(DedupOutput) <= Len(DedupInput)
  /\ \A i \in 1..Len(DedupInput) :
       LET absorbing == {o \in 1..Len(DedupOutput) :
                           DedupInput[i].origins \subseteq DedupOutput[o].origins}
       IN /\ Cardinality(absorbing) = 1
          /\ \A o \in absorbing :
               Range(DedupInput[i].keywords_found)
                 \subseteq Range(DedupOutput[o].keywords_found)
  /\ \A o \in 1..Len(DedupOutput) :
       /\ DedupOutput[o].origins # {}
       /\ DedupOutput[o].origins
            \subseteq UNION {DedupInput[i].origins : i \in 1..Len(DedupInput)}
  /\ \A i, j \in 1..Len(DedupInput) :
       i # j => DedupInput[i].origins \cap DedupInput[j].origins = {}

\* a call in which three snippets of different keywords went in and fewer
\* came out, one of them made of several inputs and one of a single input
DedupPartitionsWitness ==
  /\ Len(DedupInput) >= 3
  /\ Len(DedupOutput) >= 2
  /\ \E o \in 1..Len(DedupOutput) : Cardinality(DedupOutput[o].origins) >= 2
  /\ \E o \in 1..Len(DedupOutput) : Cardinality(DedupOutput[o].origins) = 1
  /\ \E i, j \in 1..Len(DedupInput) :
       DedupInput[i].keywords_found # DedupInput[j].keywords_found

====
